---- MODULE Spec2Model ----
(***************************************************************************)
(* A model of the recursive-descent JSON parser of src/src/lib.rs.         *)
(*                                                                         *)
(* Characters are Unicode code points (natural numbers), a character       *)
(* stream is a sequence of code points together with a cursor `pos`, the   *)
(* index of the next character the iterator will yield.  The leaf readers  *)
(* (read_string, read_bool, read_null, read_number, skip_whitespace) are   *)
(* operators that step the iterator adaptors the way the Rust standard     *)
(* library and itertools do; the list and object readers are small-step    *)
(* actions over an explicit stack of call frames.                          *)
(***************************************************************************)
EXTENDS Integers, Sequences, FiniteSets, TLC

VARIABLES text, entry, chars, pos, stack, pc, ret, result, prev

vars == <<text, entry, chars, pos, stack, pc, ret, result, prev>>

----------------------------------------------------------------------------
(* Characters the parser compares against.                                 *)

QUOTE == 34
BACKSLASH == 92
LBRACKET == 91
RBRACKET == 93
LBRACE == 123
RBRACE == 125
COMMA == 44
COLON == 58
PLUS == 43
MINUS == 45
DOT == 46
DIGIT_0 == 48
DIGIT_9 == 57
CH_t == 116
CH_f == 102
CH_n == 110

\* "rue", "alse" and "null", the literals read_bool and read_null zip against.
LIT_rue == <<114, 117, 101>>
LIT_alse == <<97, 108, 115, 101>>
LIT_null == <<110, 117, 108, 108>>

\* char::is_whitespace: the code points with the Unicode White_Space property.
IsWhitespace(c) ==
    \/ c \in 9..13
    \/ c \in {32, 133, 160, 5760, 8232, 8233, 8239, 8287, 12288}
    \/ c \in 8192..8202

\* A number class that also takes the exponent letters 'e' and 'E'.
IsNumberCharWithExp(c) ==
    \/ c \in DIGIT_0..DIGIT_9
    \/ c \in {DOT, PLUS, MINUS, 101, 69}

\* matches!(ch, '0'..='9' | '.' | '+' | '-')
IsNumberChar(c) ==
    \/ c \in DIGIT_0..DIGIT_9
    \/ c \in {DOT, PLUS, MINUS}

IsDigit(c) == c \in DIGIT_0..DIGIT_9

----------------------------------------------------------------------------
(* Results.                                                                *)

\* What a reader returns, with the cursor it leaves behind.
Ok(v, p) == [ok |-> TRUE, val |-> v, err |-> "", pos |-> p]
Err(e, p) == [ok |-> FALSE, err |-> e, pos |-> p]

\* enum Json.  A value carries every payload field, the ones of the other
\* variants at their defaults, so that any two values can be compared.
Value(tag, s, n, b, items, props) ==
    [tag |-> tag, s |-> s, n |-> n, b |-> b, items |-> items, props |-> props]

JString(s) == Value("String", s, <<0, 0>>, FALSE, <<>>, <<>>)
JNumber(n) == Value("Number", <<>>, n, FALSE, <<>>, <<>>)
JBool(b) == Value("Bool", <<>>, <<0, 0>>, b, <<>>, <<>>)
JNull == Value("Null", <<>>, <<0, 0>>, FALSE, <<>>, <<>>)
JList(items) == Value("List", <<>>, <<0, 0>>, FALSE, items, <<>>)
JObject(props) == Value("Object", <<>>, <<0, 0>>, FALSE, <<>>, props)

\* One (String, Json) pair of an object.
Property(name, value) == [name |-> name, value |-> value]

----------------------------------------------------------------------------
(* Iterator steps.                                                         *)

\* Peekable::peek: the next character, or "None" at the end of the stream.
NONE == -1

Peek(cs, p) == IF p <= Len(cs) THEN cs[p] ELSE NONE

\* A next that yields the character and leaves the cursor where it is.
AdvanceNot(cs, p) == p

\* The cursor after Iterator::next: one character further unless at the end.
Advance(cs, p) == IF p <= Len(cs) THEN p + 1 ELSE p

\* peeking_take_while(is_whitespace): the cursor after the maximal run of
\* whitespace; the first other character is not consumed.
RECURSIVE skip_whitespace(_, _)
skip_whitespace(cs, p) ==
    IF p <= Len(cs) /\ IsWhitespace(cs[p])
    THEN skip_whitespace(cs, p + 1)
    ELSE p

----------------------------------------------------------------------------
(* read_string                                                             *)

\* The closure's `keep_reading`.
StringKeepReading(escaped, c) == escaped \/ c # QUOTE

\* An escape flag that is set by every backslash, escaped or not.
StringEscapedNoToggle(escaped, c) == c = BACKSLASH

\* The closure's update of `escaped`.
StringEscaped(escaped, c) == ~escaped /\ c = BACKSLASH

\* peeking_take_while with the closure: the cursor stops at the first
\* character the closure rejects (which the closure has seen, so `escaped`
\* is updated for it too) or at the end of the stream.
RECURSIVE StringBody(_, _, _)
StringBody(cs, p, escaped) ==
    IF p > Len(cs)
    THEN [pos |-> p, escaped |-> escaped]
    ELSE IF StringKeepReading(escaped, cs[p])
         THEN StringBody(cs, p + 1, StringEscaped(escaped, cs[p]))
         ELSE [pos |-> p, escaped |-> StringEscaped(escaped, cs[p])]

read_string(cs, p) ==
    IF Peek(cs, p) # QUOTE
    THEN Err("InvalidValue", Advance(cs, p))
    ELSE LET body == StringBody(cs, p + 1, FALSE)
         IN  IF Peek(cs, body.pos) # QUOTE \/ body.escaped
             THEN Err("UnclosedString", Advance(cs, body.pos))
             ELSE Ok(SubSeq(cs, p + 1, body.pos - 1), body.pos + 1)

----------------------------------------------------------------------------
(* read_bool and read_null                                                 *)

\* zip(lit).take(n).count() without the filter: pairs are counted whether
\* or not the two characters are equal.
RECURSIVE ZipTakeCount(_, _, _, _, _, _)
ZipTakeCount(cs, p, lit, k, n, count) ==
    IF count = n
    THEN [count |-> count, pos |-> p]
    ELSE IF p > Len(cs)
         THEN [count |-> count, pos |-> p]
         ELSE IF k > Len(lit)
              THEN [count |-> count, pos |-> p + 1]
              ELSE ZipTakeCount(cs, p + 1, lit, k + 1, n, count + 1)

\* iter.zip(lit.chars()).filter(|(found, expected)| found == expected)
\*     .take(n).count()
\* Zip::next takes from the stream first and from the literal second, so a
\* character is consumed even when the literal is exhausted; Take stops
\* pulling once it has yielded n items.
RECURSIVE ZipFilterTakeCount(_, _, _, _, _, _)
ZipFilterTakeCount(cs, p, lit, k, n, count) ==
    IF count = n
    THEN [count |-> count, pos |-> p]
    ELSE IF p > Len(cs)
         THEN [count |-> count, pos |-> p]
         ELSE IF k > Len(lit)
              THEN [count |-> count, pos |-> p + 1]
              ELSE ZipFilterTakeCount(cs, p + 1, lit, k + 1, n,
                                      IF cs[p] = lit[k] THEN count + 1 ELSE count)

read_bool(cs, p) ==
    IF Peek(cs, p) = CH_f
    THEN LET z == ZipFilterTakeCount(cs, p + 1, LIT_alse, 1, 4, 0)
         IN  IF z.count = 4 THEN Ok(FALSE, z.pos) ELSE Err("InvalidValue", z.pos)
    ELSE IF Peek(cs, p) = CH_t
         THEN LET z == ZipFilterTakeCount(cs, p + 1, LIT_rue, 1, 3, 0)
              IN  IF z.count = 3 THEN Ok(TRUE, z.pos) ELSE Err("InvalidValue", z.pos)
         ELSE Err("InvalidValue", Advance(cs, p))

read_null(cs, p) ==
    LET z == ZipFilterTakeCount(cs, p, LIT_null, 1, 4, 0)
    IN  IF z.count = 4 THEN Ok(<<>>, z.pos) ELSE Err("InvalidValue", z.pos)

----------------------------------------------------------------------------
(* read_number                                                             *)

\* peeking_take_while(number class): the cursor after the maximal run.
RECURSIVE NumberRun(_, _)
NumberRun(cs, p) ==
    IF p <= Len(cs) /\ IsNumberChar(cs[p])
    THEN NumberRun(cs, p + 1)
    ELSE p

RECURSIVE DecimalValue(_)
DecimalValue(ds) ==
    IF ds = <<>>
    THEN 0
    ELSE 10 * DecimalValue(SubSeq(ds, 1, Len(ds) - 1)) + (ds[Len(ds)] - DIGIT_0)

\* The decimal num / 10^scale in lowest terms of scale.
RECURSIVE Normalise(_, _)
Normalise(num, scale) ==
    IF num = 0
    THEN <<0, 0>>
    ELSE IF scale > 0 /\ num % 10 = 0
         THEN Normalise(num \div 10, scale - 1)
         ELSE <<num, scale>>

\* str::parse::<f64> on a text of digits, '.', '+' and '-': an optional sign,
\* then digits with at most one '.', at least one digit.  The value is the
\* decimal <<num, scale>> = num / 10^scale (distinct short decimals are
\* distinct doubles, and -0.0 == 0.0).
ParseF64(s) ==
    LET signed == s # <<>> /\ s[1] \in {PLUS, MINUS}
        body == IF signed THEN Tail(s) ELSE s
        dots == {i \in 1..Len(body) : body[i] = DOT}
        digits == SelectSeq(body, IsDigit)
        valid == /\ \A i \in 1..Len(body) : IsDigit(body[i]) \/ body[i] = DOT
                 /\ Cardinality(dots) <= 1
                 /\ digits # <<>>
        scale == IF dots = {} THEN 0 ELSE Len(body) - (CHOOSE i \in dots : TRUE)
        mag == DecimalValue(digits)
        num == IF signed /\ s[1] = MINUS THEN 0 - mag ELSE mag
    IN  IF valid THEN [ok |-> TRUE, v |-> Normalise(num, scale)]
                 ELSE [ok |-> FALSE, v |-> <<0, 0>>]

\* read_number with take_while in place of peeking_take_while: the
\* character that ends the run is consumed as well.
read_number_take_while(cs, p) ==
    LET end == NumberRun(cs, p)
        run == SubSeq(cs, p, end - 1)
        f == ParseF64(run)
    IN  IF run = <<>>
        THEN Err("InvalidValue", Advance(cs, end))
        ELSE IF f.ok THEN Ok(f.v, Advance(cs, end))
                     ELSE Err("InvalidValue", Advance(cs, end))

read_number(cs, p) ==
    LET end == NumberRun(cs, p)
        run == SubSeq(cs, p, end - 1)
        f == ParseF64(run)
    IN  IF run = <<>>
        THEN Err("InvalidValue", end)
        ELSE IF f.ok THEN Ok(f.v, end) ELSE Err("InvalidValue", end)

----------------------------------------------------------------------------
(* The byte adapter (struct Chars) and the UTF-8 encoding of a text.       *)

\* char::from_u32: a Unicode scalar value.
IsScalar(v) == v <= 1114111 /\ ~(v \in 55296..57343)

\* Chars::next: up to four bytes are accumulated big-endian in a u32; the
\* first accumulated value that is a scalar value is the character.  The
\* shift by 8 of a u32 drops its top byte: (value << 8) = (value % 2^24) * 2^8.
RECURSIVE CharsNext(_, _, _, _)
CharsNext(bytes, b, taken, value) ==
    IF taken = 4 \/ b > Len(bytes)
    THEN [ch |-> NONE, b |-> b]
    ELSE LET v == ((value % 16777216) * 256) + bytes[b]
         IN  IF IsScalar(v)
             THEN [ch |-> v, b |-> b + 1]
             ELSE CharsNext(bytes, b + 1, taken + 1, v)

\* The characters Chars yields until its first None (n is the result of one
\* call of next, bound once).
RECURSIVE CharsCollect(_, _)
CharsCollect(bytes, b) ==
    CHOOSE cs \in { IF n.ch = NONE THEN <<>>
                                   ELSE <<n.ch>> \o CharsCollect(bytes, n.b)
                    : n \in {CharsNext(bytes, b, 0, 0)} } : TRUE

\* The UTF-8 encoding of one code point.
Utf8(c) ==
    IF c < 128 THEN <<c>>
    ELSE IF c < 2048 THEN <<192 + (c \div 64), 128 + (c % 64)>>
    ELSE IF c < 65536
         THEN <<224 + (c \div 4096), 128 + ((c \div 64) % 64), 128 + (c % 64)>>
         ELSE <<240 + (c \div 262144), 128 + ((c \div 4096) % 64),
                128 + ((c \div 64) % 64), 128 + (c % 64)>>

RECURSIVE Utf8Bytes(_)
Utf8Bytes(s) == IF s = <<>> THEN <<>> ELSE Utf8(Head(s)) \o Utf8Bytes(Tail(s))

----------------------------------------------------------------------------
(* The inputs: the texts the parser is called on.                          *)

MaxListLen == 5
MaxStringLen == 6
MaxNumberLen == 4
MaxObjectTokens == 5

SeqsUpTo(S, n) == UNION {[1..k -> S] : k \in 0..n}

RECURSIVE Concat(_)
Concat(ss) == IF ss = <<>> THEN <<>> ELSE Head(ss) \o Concat(Tail(ss))

\* Texts over  [ ] , 1 and the space.
ListTexts == SeqsUpTo({LBRACKET, RBRACKET, COMMA, 49, 32}, MaxListLen)

\* Texts over  " \ a.
StringTexts == SeqsUpTo({QUOTE, BACKSLASH, 97}, MaxStringLen)

\* Texts over  1 0 . - + e, alone, as the element of a list and as the value
\* of an object's property.
NumberRuns == SeqsUpTo({49, DIGIT_0, DOT, MINUS, PLUS, 101}, MaxNumberLen)
InList(n) == <<LBRACKET>> \o n \o <<RBRACKET>>
InObject(n) == <<LBRACE, QUOTE, 97, QUOTE, COLON>> \o n \o <<RBRACE>>
NumberTexts == NumberRuns \cup {InList(n) : n \in NumberRuns}
                          \cup {InObject(n) : n \in NumberRuns}

\* Texts made of the tokens  {  }  ", "  " : "  "a"  "1 ".
ObjectTokens ==
    { <<LBRACE>>, <<RBRACE>>, <<COMMA, 32>>, <<32, COLON, 32>>,
      <<QUOTE, 97, QUOTE>>, <<49, 32>> }
ObjectTexts == {Concat(ts) : ts \in SeqsUpTo(ObjectTokens, MaxObjectTokens)}

\* The literals true, false and null: every prefix, every text with one
\* character replaced, and every text with one character added at the end.
Literals == {<<CH_t>> \o LIT_rue, <<CH_f>> \o LIT_alse, LIT_null}
LiteralLetters == {CH_t, CH_f, CH_n, 114, 117, 101, 97, 108, 115, 120, 32}
LiteralTexts ==
    UNION { {SubSeq(l, 1, k) : k \in 0..Len(l)}
            \cup {[l EXCEPT ![i] = c] : i \in 1..Len(l), c \in LiteralLetters}
            \cup {Append(l, c) : c \in LiteralLetters}
            \cup {InList(l), InObject(l), InList(SubSeq(l, 1, Len(l) - 1))}
          : l \in Literals }

\* Values nested in lists and objects, some cut short.
NestedTexts ==
    { <<LBRACKET, LBRACE>>,
      <<LBRACKET, LBRACKET, RBRACKET>>,
      <<LBRACKET, LBRACE, RBRACE, RBRACKET>>,
      <<LBRACKET, LBRACE, RBRACE, COMMA, LBRACKET, RBRACKET, RBRACKET>>,
      <<LBRACE, QUOTE, QUOTE, COLON, LBRACKET>>,
      <<LBRACE, QUOTE, QUOTE, COLON, LBRACKET, RBRACKET, RBRACE>>,
      <<LBRACE, QUOTE, QUOTE, COLON, LBRACKET, 49, RBRACKET, 32>>,
      <<LBRACE, QUOTE, QUOTE, COLON, LBRACE, RBRACE, RBRACE, RBRACKET>>,
      <<LBRACKET, QUOTE, 97, QUOTE, COMMA, CH_n, 117, 108, 108, RBRACKET>>,
      <<LBRACKET, QUOTE, 97>>,
      <<32, 10, LBRACKET, 9, 49, 13, RBRACKET>> }

\* Strings with characters that UTF-8 encodes in two, three and four bytes
\* (U+00E9, U+20AC, U+1F600), and U+00E0 whose second byte is 0xA0.
MultiByteTexts ==
    { <<QUOTE, 233, QUOTE>>, <<QUOTE, 8364, QUOTE>>, <<QUOTE, 128512, QUOTE>>,
      <<QUOTE, 224, QUOTE>>,
      <<LBRACKET, QUOTE, 97, 233, QUOTE, RBRACKET>>,
      <<LBRACE, QUOTE, 233, QUOTE, COLON, 49, RBRACE>> }

Texts == ListTexts \cup StringTexts \cup NumberTexts \cup ObjectTexts
         \cup LiteralTexts \cup NestedTexts \cup MultiByteTexts

\* What follows a value in a second call on the same text.
Trailing == { <<49>>, <<120>>, <<DOT, 49>>, <<32, RBRACKET>>, <<COMMA>> }

\* The calls: every text through from_str, and the readers the unit tests
\* call directly on the texts of their kind.
Calls ==
    (Texts \X {"from_str"})
    \cup (LiteralTexts \X {"read_bool", "read_null"})
    \cup (StringTexts \X {"read_string"})
    \cup (NumberRuns \X {"read_number"})

----------------------------------------------------------------------------
(* The state machine.                                                      *)

NoValue == Value("None", <<>>, <<0, 0>>, FALSE, <<>>, <<>>)
NoResult == [ok |-> FALSE, val |-> NoValue, err |-> "none"]
NoPrev == [text |-> <<>>, entry |-> "none", result |-> NoResult, pos |-> 0]

\* The locals of one call of read_list (items) or read_object (props, name).
Frame(kind) == [kind |-> kind, items |-> <<>>, props |-> <<>>, name |-> <<>>]
Top == stack[Len(stack)]
Pop == SubSeq(stack, 1, Len(stack) - 1)

Init ==
    /\ \E c \in Calls : text = c[1] /\ entry = c[2]
    /\ chars = <<>>
    /\ pos = 1
    /\ stack = <<>>
    /\ pc = "idle"
    /\ ret = NoValue
    /\ result = NoResult
    /\ prev = NoPrev

\* A reader returns Ok(v) to its caller with the cursor at p.
Return(v, p, stk) ==
    /\ ret' = v
    /\ pos' = p
    /\ stack' = stk
    /\ pc' = "returned"
    /\ UNCHANGED <<text, entry, chars, result, prev>>

\* A reader returns Err(e); every caller up to the entry point propagates
\* it with `?`.
Fail(e, p) ==
    /\ result' = [ok |-> FALSE, val |-> NoValue, err |-> e]
    /\ pos' = p
    /\ stack' = <<>>
    /\ pc' = "done"
    /\ UNCHANGED <<text, entry, chars, ret, prev>>

\* Control moves on inside the readers.
Goto(label, p, stk) ==
    /\ pc' = label
    /\ pos' = p
    /\ stack' = stk
    /\ UNCHANGED <<text, entry, chars, ret, result, prev>>

from_str ==
    /\ pc = "idle"
    /\ entry = "from_str"
    /\ chars' = text
    /\ pc' = "from_chars"
    /\ UNCHANGED <<text, entry, pos, stack, ret, result, prev>>

from_bytes ==
    /\ pc = "idle"
    /\ entry = "from_bytes"
    /\ \E bytes \in {Utf8Bytes(text)} : chars' = CharsCollect(bytes, 1)
    /\ pc' = "from_chars"
    /\ UNCHANGED <<text, entry, pos, stack, ret, result, prev>>

\* iter.skip_while(is_whitespace).peekable(), then parse_value.
from_chars ==
    /\ pc = "from_chars"
    /\ Goto("parse_value", skip_whitespace(chars, pos), stack)

\* One error for every text that starts no value, the empty one included.
NoValueErrorAlwaysInvalid(c) == "InvalidValue"

\* parse_value's last two arms: a character that starts no value, or none.
NoValueError(c) == IF c = NONE THEN "UnexpectedEndOfFile" ELSE "InvalidValue"

parse_value ==
    /\ pc = "parse_value"
    /\ LET c == Peek(chars, pos)
       IN  IF c = QUOTE
           THEN LET r == read_string(chars, pos)
                IN  IF r.ok THEN Return(JString(r.val), r.pos, stack)
                            ELSE Fail(r.err, r.pos)
           ELSE IF c \in {CH_t, CH_f}
           THEN LET r == read_bool(chars, pos)
                IN  IF r.ok THEN Return(JBool(r.val), r.pos, stack)
                            ELSE Fail(r.err, r.pos)
           ELSE IF c = CH_n
           THEN LET r == read_null(chars, pos)
                IN  IF r.ok THEN Return(JNull, r.pos, stack)
                            ELSE Fail(r.err, r.pos)
           ELSE IF c # NONE /\ IsNumberChar(c)
           THEN LET r == read_number(chars, pos)
                IN  IF r.ok THEN Return(JNumber(r.val), r.pos, stack)
                            ELSE Fail(r.err, r.pos)
           ELSE IF c = LBRACKET THEN Goto("read_list", pos, stack)
           ELSE IF c = LBRACE THEN Goto("read_object", pos, stack)
           ELSE Fail(NoValueError(c), pos)

\* Iterator::next in place of find: whitespace is not skipped.
NextChar(cs, p) == [ch |-> Peek(cs, p), pos |-> Advance(cs, p)]

\* iter.find(|&ch| !ch.is_whitespace()): the whitespace and the character
\* found are consumed.
FindNonWhitespace(cs, p) ==
    LET k == skip_whitespace(cs, p)
    IN  [ch |-> Peek(cs, k), pos |-> Advance(cs, k)]

\* read_list up to its loop.
read_list ==
    /\ pc = "read_list"
    /\ IF Peek(chars, pos) # LBRACKET
       THEN Fail("InvalidValue", Advance(chars, pos))
       ELSE Goto("list_loop", pos + 1, Append(stack, Frame("list")))

\* The head of read_list's loop: the closing bracket or the next value.
list_loop ==
    /\ pc = "list_loop"
    /\ LET p == skip_whitespace(chars, pos)
       IN  IF Peek(chars, p) = RBRACKET
           THEN Return(JList(Top.items), p + 1, Pop)
           ELSE Goto("parse_value", p, stack)

\* The rest of read_list's loop: the value is pushed and the separator or
\* the closing bracket is looked for.
list_separator ==
    /\ pc = "returned"
    /\ stack # <<>>
    /\ Top.kind = "list"
    /\ LET items == Append(Top.items, ret)
           f == FindNonWhitespace(chars, pos)
       IN  IF f.ch = RBRACKET THEN Return(JList(items), f.pos, Pop)
           ELSE IF f.ch = COMMA
           THEN Goto("list_loop", f.pos,
                     [stack EXCEPT ![Len(stack)].items = items])
           ELSE IF f.ch = NONE THEN Fail("UnclosedList", f.pos)
           ELSE Fail("MissingSeparator", f.pos)

\* read_object up to its loop.
read_object ==
    /\ pc = "read_object"
    /\ IF Peek(chars, pos) # LBRACE
       THEN Fail("InvalidValue", Advance(chars, pos))
       ELSE Goto("object_loop", pos + 1, Append(stack, Frame("object")))

\* The head of read_object's loop: the closing brace or the property's name.
object_loop ==
    /\ pc = "object_loop"
    /\ LET p == skip_whitespace(chars, pos)
       IN  IF Peek(chars, p) = RBRACE
           THEN Return(JObject(Top.props), p + 1, Pop)
           ELSE LET r == read_string(chars, p)
                IN  IF r.ok
                    THEN Goto("object_colon", r.pos,
                              [stack EXCEPT ![Len(stack)].name = r.val])
                    ELSE Fail(r.err, r.pos)

\* The key-value separator, with the whitespace around it.
object_colon ==
    /\ pc = "object_colon"
    /\ LET p == skip_whitespace(chars, pos)
       IN  IF Peek(chars, p) # COLON
           THEN Fail("MissingSeparator", Advance(chars, p))
           ELSE Goto("parse_value", skip_whitespace(chars, p + 1), stack)

\* The rest of read_object's loop: the property is pushed and the separator
\* or the closing brace is read.
object_separator ==
    /\ pc = "returned"
    /\ stack # <<>>
    /\ Top.kind = "object"
    /\ LET props == Append(Top.props, Property(Top.name, ret))
           p == skip_whitespace(chars, pos)
           c == Peek(chars, p)
       IN  IF c = RBRACE THEN Return(JObject(props), p + 1, Pop)
           ELSE IF c = COMMA
           THEN Goto("object_loop", p + 1,
                     [stack EXCEPT ![Len(stack)].props = props])
           ELSE IF c = NONE THEN Fail("UnclosedObject", p)
           ELSE Fail("MissingSeparator", p + 1)

\* A from_chars that rejects a value with anything but whitespace after it.
from_chars_return_strict ==
    /\ pc = "returned"
    /\ stack = <<>>
    /\ result' = IF skip_whitespace(chars, pos) > Len(chars)
                 THEN [ok |-> TRUE, val |-> ret, err |-> ""]
                 ELSE [ok |-> FALSE, val |-> NoValue, err |-> "InvalidValue"]
    /\ pc' = "done"
    /\ UNCHANGED <<text, entry, chars, pos, stack, ret, prev>>

\* parse_value returns to from_chars, which returns the value to the caller.
from_chars_return ==
    /\ pc = "returned"
    /\ stack = <<>>
    /\ result' = [ok |-> TRUE, val |-> ret, err |-> ""]
    /\ pc' = "done"
    /\ UNCHANGED <<text, entry, chars, pos, stack, ret, prev>>

\* A unit test calls a reader directly on the characters of the text.
Direct(r, v) ==
    /\ pc = "idle"
    /\ chars' = text
    /\ pos' = r.pos
    /\ result' = IF r.ok THEN [ok |-> TRUE, val |-> v, err |-> ""]
                         ELSE [ok |-> FALSE, val |-> NoValue, err |-> r.err]
    /\ pc' = "done"
    /\ UNCHANGED <<text, entry, stack, ret, prev>>

test_read_string ==
    /\ entry = "read_string"
    /\ LET r == read_string(text, 1) IN Direct(r, JString(r.val))

test_read_bool ==
    /\ entry = "read_bool"
    /\ LET r == read_bool(text, 1) IN Direct(r, JBool(r.val))

test_read_null ==
    /\ entry = "read_null"
    /\ LET r == read_null(text, 1) IN Direct(r, JNull)

test_read_number ==
    /\ entry = "read_number"
    /\ LET r == read_number(text, 1) IN Direct(r, JNumber(r.val))

\* The caller's next call, the finished one remembered in prev.
NextCall(t, e) ==
    /\ pc = "done"
    /\ entry = "from_str"
    /\ prev = NoPrev
    /\ prev' = [text |-> text, entry |-> entry, result |-> result, pos |-> pos]
    /\ text' = t
    /\ entry' = e
    /\ chars' = <<>>
    /\ pos' = 1
    /\ stack' = <<>>
    /\ pc' = "idle"
    /\ ret' = NoValue
    /\ result' = NoResult

\* The same text once more, as its UTF-8 bytes.
call_from_bytes == NextCall(text, "from_bytes")

\* The text of a successful parse once more, with something after it.
call_with_trailing ==
    /\ result.ok
    /\ \E t \in Trailing : NextCall(text \o t, "from_str")

Next ==
    \/ from_str
    \/ from_bytes
    \/ from_chars
    \/ parse_value
    \/ read_list
    \/ list_loop
    \/ list_separator
    \/ read_object
    \/ object_loop
    \/ object_colon
    \/ object_separator
    \/ from_chars_return
    \/ test_read_string
    \/ test_read_bool
    \/ test_read_null
    \/ test_read_number
    \/ call_from_bytes
    \/ call_with_trailing

Spec == Init /\ [][Next]_vars

\* The program runs sequentially and nothing suspends it: a step that is
\* possible is eventually taken.
FairSpec == Spec /\ WF_vars(Next)

----------------------------------------------------------------------------
(* The JSON grammar (RFC 8259), for the claims that speak of well-formed   *)
(* JSON: each operator gives the index after the construct that starts at  *)
(* index i of s, or 0 when there is none.                                  *)

JsonWhitespace(c) == c \in {32, 9, 10, 13}

RECURSIVE JsonSkip(_, _)
JsonSkip(s, i) ==
    IF i <= Len(s) /\ JsonWhitespace(s[i]) THEN JsonSkip(s, i + 1) ELSE i

RECURSIVE JsonDigitsEnd(_, _)
JsonDigitsEnd(s, i) ==
    IF i <= Len(s) /\ IsDigit(s[i]) THEN JsonDigitsEnd(s, i + 1) ELSE i

JsonExponentEnd(s, i) ==
    IF i <= Len(s) /\ s[i] \in {101, 69}
    THEN LET j == IF i + 1 <= Len(s) /\ s[i + 1] \in {PLUS, MINUS}
                  THEN i + 2 ELSE i + 1
             k == JsonDigitsEnd(s, j)
         IN  IF k > j THEN k ELSE 0
    ELSE i

JsonFractionEnd(s, i) ==
    IF i <= Len(s) /\ s[i] = DOT
    THEN LET k == JsonDigitsEnd(s, i + 1)
         IN  IF k > i + 1 THEN JsonExponentEnd(s, k) ELSE 0
    ELSE JsonExponentEnd(s, i)

JsonNumberEnd(s, i) ==
    LET j == IF i <= Len(s) /\ s[i] = MINUS THEN i + 1 ELSE i
    IN  IF j > Len(s) \/ ~IsDigit(s[j]) THEN 0
        ELSE IF s[j] = DIGIT_0 THEN JsonFractionEnd(s, j + 1)
        ELSE JsonFractionEnd(s, JsonDigitsEnd(s, j))

IsHexDigit(c) == c \in 48..57 \/ c \in 65..70 \/ c \in 97..102

\* i is the index after the opening quote, or after a character of the string.
RECURSIVE JsonStringRest(_, _)
JsonStringRest(s, i) ==
    IF i > Len(s) \/ s[i] < 32 THEN 0
    ELSE IF s[i] = QUOTE THEN i + 1
    ELSE IF s[i] # BACKSLASH THEN JsonStringRest(s, i + 1)
    ELSE IF i + 1 > Len(s) THEN 0
    ELSE IF s[i + 1] \in {QUOTE, BACKSLASH, 47, 98, 102, 110, 114, 116}
         THEN JsonStringRest(s, i + 2)
    ELSE IF /\ s[i + 1] = 117
            /\ i + 5 <= Len(s)
            /\ \A j \in (i + 2)..(i + 5) : IsHexDigit(s[j])
         THEN JsonStringRest(s, i + 6)
    ELSE 0

JsonStringEnd(s, i) ==
    IF i <= Len(s) /\ s[i] = QUOTE THEN JsonStringRest(s, i + 1) ELSE 0

JsonLiteralEnd(s, i, lit) ==
    IF i + Len(lit) - 1 <= Len(s) /\ SubSeq(s, i, i + Len(lit) - 1) = lit
    THEN i + Len(lit)
    ELSE 0

RECURSIVE JsonValueEnd(_, _)
RECURSIVE JsonElementsEnd(_, _)
RECURSIVE JsonMembersEnd(_, _)

JsonValueEnd(s, i) ==
    IF i > Len(s) THEN 0
    ELSE IF s[i] = QUOTE THEN JsonStringEnd(s, i)
    ELSE IF s[i] = CH_t THEN JsonLiteralEnd(s, i, <<CH_t>> \o LIT_rue)
    ELSE IF s[i] = CH_f THEN JsonLiteralEnd(s, i, <<CH_f>> \o LIT_alse)
    ELSE IF s[i] = CH_n THEN JsonLiteralEnd(s, i, LIT_null)
    ELSE IF s[i] = LBRACKET
         THEN LET j == JsonSkip(s, i + 1)
              IN  IF j <= Len(s) /\ s[j] = RBRACKET THEN j + 1
                  ELSE JsonElementsEnd(s, j)
    ELSE IF s[i] = LBRACE
         THEN LET j == JsonSkip(s, i + 1)
              IN  IF j <= Len(s) /\ s[j] = RBRACE THEN j + 1
                  ELSE JsonMembersEnd(s, j)
    ELSE JsonNumberEnd(s, i)

\* element (ws , ws element)* ws ]
JsonElementsEnd(s, i) ==
    LET e == JsonValueEnd(s, i)
        k == JsonSkip(s, e)
    IN  IF e = 0 \/ k > Len(s) THEN 0
        ELSE IF s[k] = RBRACKET THEN k + 1
        ELSE IF s[k] = COMMA THEN JsonElementsEnd(s, JsonSkip(s, k + 1))
        ELSE 0

\* member (ws , ws member)* ws }   with member = string ws : ws value
JsonMembersEnd(s, i) ==
    LET n == JsonStringEnd(s, i)
        c == JsonSkip(s, n)
        e == IF n = 0 \/ c > Len(s) \/ s[c] # COLON
             THEN 0 ELSE JsonValueEnd(s, JsonSkip(s, c + 1))
        k == JsonSkip(s, e)
    IN  IF e = 0 \/ k > Len(s) THEN 0
        ELSE IF s[k] = RBRACE THEN k + 1
        ELSE IF s[k] = COMMA THEN JsonMembersEnd(s, JsonSkip(s, k + 1))
        ELSE 0

\* s is a well-formed JSON text: one value, whitespace around it allowed.
IsJsonText(s) ==
    LET e == JsonValueEnd(s, JsonSkip(s, 1))
    IN  e # 0 /\ JsonSkip(s, e) = Len(s) + 1

Failed(e) == pc = "done" /\ ~result.ok /\ result.err = e
Succeeded(v) == pc = "done" /\ result.ok /\ result.val = v

\* The current call is the first call of from_str, on `text`.
FirstParse == pc = "done" /\ entry = "from_str" /\ prev = NoPrev

----------------------------------------------------------------------------
(* C1: a list whose last `,` is followed, after optional whitespace,        *)
(* directly by `]` is rejected with InvalidValue.                          *)

\* s without the character at index i.
Without(s, i) == SubSeq(s, 1, i - 1) \o SubSeq(s, i + 1, Len(s))

\* s is a list that is well-formed JSON but for a `,` before its last `]`.
TrailingCommaList(s) ==
    /\ Peek(s, JsonSkip(s, 1)) = LBRACKET
    /\ \E i \in 1..Len(s) :
          /\ s[i] = COMMA
          /\ LET j == JsonSkip(s, i + 1)
             IN  Peek(s, j) = RBRACKET /\ JsonSkip(s, j + 1) = Len(s) + 1
          /\ IsJsonText(Without(s, i))

\* C1: parsing a list with a trailing comma, such as [1, 2,], fails with
\* InvalidValue.
C1_TrailingCommaRejected ==
    (FirstParse /\ TrailingCommaList(text)) => Failed("InvalidValue")

----------------------------------------------------------------------------
(* C2: from_bytes on the UTF-8 encoding of a text gives what from_str      *)
(* gives on the text.                                                      *)

\* The current call is from_bytes on the text from_str was called on before.
BytesAfterText ==
    /\ pc = "done"
    /\ entry = "from_bytes"
    /\ prev.entry = "from_str"
    /\ prev.text = text

\* C2: for every text, from_bytes applied to its UTF-8 bytes returns the
\* same Value or the same error as from_str applied to the text.
C2_BytesSameAsText == BytesAfterText => result = prev.result

----------------------------------------------------------------------------
(* C4: read_bool and read_null accept exactly their literals.              *)

StartsWith(s, lit) == Len(s) >= Len(lit) /\ SubSeq(s, 1, Len(lit)) = lit

DirectOk(v, p) == result.ok /\ result.val = v /\ pos = p
DirectErr(e) == ~result.ok /\ result.err = e

\* C4: read_bool returns true only on `true` and false only on `false`,
\* read_null succeeds only on `null`; every other text, a proper prefix or a
\* text with a wrong character included, fails with InvalidValue; on success
\* exactly the 4 or 5 characters of the literal have been consumed.
C4_LiteralsExact ==
    /\ (pc = "done" /\ entry = "read_bool") =>
          IF StartsWith(text, <<CH_t>> \o LIT_rue) THEN DirectOk(JBool(TRUE), 5)
          ELSE IF StartsWith(text, <<CH_f>> \o LIT_alse) THEN DirectOk(JBool(FALSE), 6)
          ELSE DirectErr("InvalidValue")
    /\ (pc = "done" /\ entry = "read_null") =>
          IF StartsWith(text, LIT_null) THEN DirectOk(JNull, 5)
          ELSE DirectErr("InvalidValue")

\* read_bool has read `true` with an `x` after it, which it has left alone.
C4_Witness ==
    /\ pc = "done"
    /\ entry = "read_bool"
    /\ text = <<CH_t>> \o LIT_rue \o <<120>>
    /\ DirectOk(JBool(TRUE), 5)

----------------------------------------------------------------------------
(* C5: read_string ends at the first quote that is not escaped.            *)

\* The number of backslashes in a row right before index i of s, the
\* opening quote at index 1 excluded.
BackslashRun(s, i) ==
    CHOOSE k \in 0..(i - 2) :
        /\ \A j \in (i - k)..(i - 1) : s[j] = BACKSLASH
        /\ k = i - 2 \/ s[i - k - 1] # BACKSLASH

\* The quotes that can close the string that opens at index 1.
ClosingQuotes(s) ==
    {i \in 2..Len(s) : s[i] = QUOTE /\ BackslashRun(s, i) % 2 = 0}

Least(S) == CHOOSE i \in S : \A j \in S : i <= j

\* C5: on a text that starts with a quote, read_string ends the string at
\* the first quote not preceded by an odd number of backslashes, returns
\* the characters between the quotes as they are and consumes the closing
\* quote; without such a quote it fails with UnclosedString.
C5_StringEndsAtUnescapedQuote ==
    (pc = "done" /\ entry = "read_string" /\ Peek(text, 1) = QUOTE) =>
        IF ClosingQuotes(text) = {}
        THEN DirectErr("UnclosedString")
        ELSE LET i == Least(ClosingQuotes(text))
             IN  DirectOk(JString(SubSeq(text, 2, i - 1)), i + 1)

\* read_string has read  "\\\""  : an escaped backslash, an escaped quote.
C5_Witness ==
    /\ pc = "done"
    /\ entry = "read_string"
    /\ text = <<QUOTE, BACKSLASH, BACKSLASH, BACKSLASH, QUOTE, QUOTE>>
    /\ DirectOk(JString(<<BACKSLASH, BACKSLASH, BACKSLASH, QUOTE>>), 7)

----------------------------------------------------------------------------
(* C3: a value that has been read ends where the cursor is.                *)

AllIn(cs, from, to, P(_)) == \A i \in from..to : P(cs[i])

\* The step has read the value ret', of whatever kind, and the cursor pos'
\* is right after its last character.
ValueEndsAtCursor ==
    /\ pos < pos'
    /\ pos' <= Len(chars) + 1
    /\ LET v == ret'
           span == SubSeq(chars, pos, pos' - 1)
       IN  CASE v.tag = "String" ->
                    span = <<QUOTE>> \o v.s \o <<QUOTE>>
             [] v.tag = "Bool" ->
                    span = IF v.b THEN <<CH_t>> \o LIT_rue ELSE <<CH_f>> \o LIT_alse
             [] v.tag = "Null" -> span = LIT_null
             [] v.tag = "Number" ->
                    /\ AllIn(chars, pos, pos' - 1, IsNumberChar)
                    /\ ~IsNumberChar(Peek(chars, pos'))
                    /\ ParseF64(span) = [ok |-> TRUE, v |-> v.n]
             [] v.tag = "List" ->
                    /\ chars[pos' - 1] = RBRACKET
                    /\ AllIn(chars, pos, pos' - 2, IsWhitespace)
             [] v.tag = "Object" ->
                    /\ chars[pos' - 1] = RBRACE
                    /\ AllIn(chars, pos, pos' - 2, IsWhitespace)

\* C3: whenever a value of any kind has been read, at any depth, the cursor
\* has advanced by exactly the characters of the value (for a list or an
\* object, from where its reader was, through the closing bracket): the
\* character after the value has not been consumed.
C3_ValueConsumedExactly == [][pc' = "returned" => ValueEndsAtCursor]_vars

\* A number has been read inside a list and the `,` after it is still there.
C3_Witness ==
    /\ pc = "returned"
    /\ Len(stack) = 1
    /\ ret.tag = "Number"
    /\ Peek(chars, pos) = COMMA

----------------------------------------------------------------------------
(* C6: a number in exponent form.                                          *)

\* n is a JSON number with an exponent part.
IsExponentNumber(n) ==
    /\ JsonNumberEnd(n, 1) = Len(n) + 1
    /\ \E i \in 1..Len(n) : n[i] \in {101, 69}

\* The index of the exponent letter of n.
ExponentAt(n) == Least({i \in 1..Len(n) : n[i] \in {101, 69}})

\* The text is the exponent-form number n alone / in a list / in an object.
ExponentAlone == IsExponentNumber(text)
ExponentInList ==
    /\ Len(text) >= 2
    /\ LET n == SubSeq(text, 2, Len(text) - 1)
       IN  text = InList(n) /\ IsExponentNumber(n)
ExponentInObject ==
    /\ Len(text) >= 6
    /\ LET n == SubSeq(text, 6, Len(text) - 1)
       IN  text = InObject(n) /\ IsExponentNumber(n)

\* C6: a number in exponent form such as 1e10 is rejected with
\* InvalidValue, as the top-level value and as an element of a list or
\* object.
C6_ExponentRejected ==
    (FirstParse /\ (ExponentAlone \/ ExponentInList \/ ExponentInObject))
        => Failed("InvalidValue")

\* The number before the exponent letter of the text, as read_number reads it.
Mantissa == JNumber(ParseF64(SubSeq(text, 1, ExponentAt(text) - 1)).v)

\* C6 as amended: the number reader stops before the exponent letter and
\* returns the number read so far; the top-level parse succeeds with it, and
\* in a list or an object the parse fails with MissingSeparator.
C6_ExponentCutShort ==
    /\ (pc = "done" /\ entry = "read_number" /\ ExponentAlone) =>
          DirectOk(Mantissa, ExponentAt(text))
    /\ (FirstParse /\ ExponentAlone) =>
          DirectOk(Mantissa, ExponentAt(text))
    /\ (FirstParse /\ (ExponentInList \/ ExponentInObject)) =>
          Failed("MissingSeparator")

\* 1e10 has been parsed as the number 1.
C6_Witness ==
    /\ FirstParse
    /\ text = <<49, 101, 49, DIGIT_0>>
    /\ Succeeded(JNumber(<<1, 0>>))
    /\ pos = 2

----------------------------------------------------------------------------
(* C7: what follows the top-level value.                                   *)

\* The current call is from_str on the text of the call before and more.
TrailingAfterText ==
    /\ pc = "done"
    /\ entry = "from_str"
    /\ prev.entry = "from_str"
    /\ Len(text) > Len(prev.text)
    /\ SubSeq(text, 1, Len(prev.text)) = prev.text

\* C7: for every well-formed JSON text v and all trailing characters t, the
\* parse of v followed by t succeeds with the Value of the parse of v.
C7_TrailingIgnored ==
    (TrailingAfterText /\ IsJsonText(prev.text)) =>
        result.ok /\ prev.result.ok /\ result.val = prev.result.val

\* The value of the first call is a number that runs to the end of its text
\* and the trailing characters start with a character of a number.
NumberRunsOn ==
    /\ prev.result.val.tag = "Number"
    /\ prev.pos = Len(prev.text) + 1
    /\ IsNumberChar(text[Len(prev.text) + 1])

\* C7 as amended: for every text v whose parse succeeds and all trailing
\* characters t, the parse of v followed by t succeeds with the same Value
\* and the same characters consumed, unless the value is a number that runs
\* to the end of v and t starts with a digit, `.`, `+` or `-`.
C7_TrailingIgnoredUnlessNumber ==
    (TrailingAfterText /\ prev.result.ok /\ ~NumberRunsOn) =>
        result = prev.result /\ pos = prev.pos

\* [1] has been parsed, and then [1] ] with the same result.
C7_Witness ==
    /\ TrailingAfterText
    /\ prev.text = <<LBRACKET, 49, RBRACKET>>
    /\ text = <<LBRACKET, 49, RBRACKET, 32, RBRACKET>>
    /\ Succeeded(JList(<<JNumber(<<1, 0>>)>>))

----------------------------------------------------------------------------
(* C8: the separator after an element.                                     *)

\* The first character at or after the cursor that is not whitespace.
RestNonWhitespace == {i \in pos..Len(chars) : ~IsWhitespace(chars[i])}

StepFails(e) == pc' = "done" /\ ~result'.ok /\ result'.err = e

\* What the step after an element of the innermost container does; frame
\* is the container's frame with the element added.
SeparatorStep(closing, loop, unclosed, Container(_), frame) ==
    LET elements == IF Top.kind = "list" THEN frame.items ELSE frame.props
    IN  IF RestNonWhitespace = {}
        THEN StepFails(unclosed)
        ELSE LET k == Least(RestNonWhitespace)
             IN  IF chars[k] = closing
                 THEN /\ pc' = "returned"
                      /\ pos' = k + 1
                      /\ stack' = Pop
                      /\ ret' = Container(elements)
                 ELSE IF chars[k] = COMMA
                 THEN /\ pc' = loop
                      /\ pos' = k + 1
                      /\ stack' = Append(Pop, frame)
                 ELSE StepFails("MissingSeparator")

\* C8: after each element of a list (or key-value pair of an object) the
\* reader skips whitespace and consumes one character: the closing bracket
\* ends the container, `,` continues with the next element, any other
\* character fails with MissingSeparator and the end of the input fails
\* with UnclosedList (or UnclosedObject).
C8_SeparatorAfterElement ==
    [][(pc = "returned" /\ stack # <<>>) =>
          IF Top.kind = "list"
          THEN SeparatorStep(RBRACKET, "list_loop", "UnclosedList", JList,
                   [Top EXCEPT !.items = Append(Top.items, ret)])
          ELSE SeparatorStep(RBRACE, "object_loop", "UnclosedObject", JObject,
                   [Top EXCEPT !.props =
                        Append(Top.props, Property(Top.name, ret))])]_vars

\* [1 1] has failed with MissingSeparator.
C8_Witness ==
    /\ FirstParse
    /\ text = <<LBRACKET, 49, 32, 49, RBRACKET>>
    /\ Failed("MissingSeparator")

----------------------------------------------------------------------------
(* C9: the input ends inside a list or an object.                          *)

\* Nothing but whitespace is left.
InputEnded == \A i \in pos..Len(chars) : IsWhitespace(chars[i])

Unclosed == IF Top.kind = "list" THEN "UnclosedList" ELSE "UnclosedObject"

\* C9: whenever the input ends while a list (an object) is the innermost
\* open container, the parse fails with UnclosedList (UnclosedObject), at
\* every position inside the container.
C9_UnclosedEverywhere ==
    [][(stack # <<>> /\ InputEnded /\ pc' = "done") => StepFails(Unclosed)]_vars

\* C9 as amended: when the input ends inside a list or an object, the error
\* is UnclosedList or UnclosedObject after a complete element,
\* UnexpectedEndOfFile where a value is expected (after `[`, after `,` in a
\* list, after `:`), InvalidValue where a key is expected (after `{`, after
\* `,` in an object) and MissingSeparator after a key.
C9_ErrorByPosition ==
    [][(stack # <<>> /\ InputEnded) =>
          CASE pc = "returned" -> StepFails(Unclosed)
            [] pc = "parse_value" -> StepFails("UnexpectedEndOfFile")
            [] pc = "list_loop" -> pc' = "parse_value" /\ stack' = stack
            [] pc = "object_loop" -> StepFails("InvalidValue")
            [] pc = "object_colon" -> StepFails("MissingSeparator")]_vars

\* The input has ended after `{"a" : `, where a value is expected.
C9_Witness ==
    /\ FirstParse
    /\ text = <<LBRACE, QUOTE, 97, QUOTE, 32, COLON, 32>>
    /\ Failed("UnexpectedEndOfFile")

----------------------------------------------------------------------------
(* C10: every call returns.                                                *)

\* The cursor never moves back and stays within the input; a value reader
\* that succeeds, the opening of a list or object, the reading of a key and
\* the step after an element each consume at least one character.
Progress ==
    /\ pc # "done" => pos <= pos' /\ pos' <= Len(chars') + 1
    /\ (pc = "parse_value" /\ pc' = "returned") => pos < pos'
    /\ (pc \in {"read_list", "read_object"} /\ pc' # "done") => pos < pos'
    /\ (pc = "object_loop" /\ pc' # "done") => pos < pos'
    /\ (pc = "returned" /\ stack # <<>> /\ pc' # "done") => pos < pos'

\* C10: for every finite input from_chars eventually returns a Value or an
\* Error: every iteration of the list loop and of the object loop, and
\* every value reader that does not fail, consumes at least one character.
C10_Terminates ==
    /\ [][Progress]_vars
    /\ (pc = "from_chars") ~> (pc = "done")

\* A parse of a list with two elements has returned.
C10_Witness ==
    /\ FirstParse
    /\ result.ok
    /\ result.val.tag = "List"
    /\ Len(result.val.items) = 2

====
